---- MODULE Spec2Model ----
(***************************************************************************)
(* Model of src/server.js: an Express application exposing Create / Read / *)
(* Update / Delete routes over Firestore collections.  Every handler is    *)
(* an async function; it is modelled as one step per stretch of code       *)
(* between two awaits, so that the store call of a handler takes effect    *)
(* atomically when its await completes.                                    *)
(*                                                                         *)
(* Message texts are written without accents.                              *)
(***************************************************************************)
EXTENDS Integers, FiniteSets, Sequences, TLC

(***************************************************************************)
(* Bounds                                                                  *)
(***************************************************************************)
\* number of identifiers the store can hand out in one behaviour
MaxDocs == 1
\* number of fields in which a request body may differ from a sample body
MaxEdits == 1

(***************************************************************************)
(* JavaScript values carried by JSON bodies and stored in documents.       *)
(* All values share one record shape so that any two can be compared.      *)
(***************************************************************************)
Undefined == [kind |-> "undefined", num |-> 0, str |-> ""]
Null == [kind |-> "null", num |-> 0, str |-> ""]
Num(n) == [kind |-> "number", num |-> n, str |-> ""]
Str(s) == [kind |-> "string", num |-> 0, str |-> s]
Bool(b) == [kind |-> "boolean", num |-> IF b THEN 1 ELSE 0, str |-> ""]
Obj(i) == [kind |-> "object", num |-> 0, str |-> i]

\* ToBoolean, as applied by the `!x` tests of the handlers
Truthy(v) ==
    CASE v.kind = "undefined" -> FALSE
      [] v.kind = "null" -> FALSE
      [] v.kind = "boolean" -> v.num = 1
      [] v.kind = "number" -> v.num # 0
      [] v.kind = "string" -> v.str # ""
      [] v.kind = "object" -> TRUE

\* strings that ToNumber reads as a number; every other non-empty string
\* of the model is read as NaN
NumericStrings == [s \in {"0", "1", "3", "5", "6"} |->
    CASE s = "0" -> 0 [] s = "1" -> 1 [] s = "3" -> 3 [] s = "5" -> 5 [] s = "6" -> 6]

\* ToNumber: nan is TRUE when the result is NaN
ToNumber(v) ==
    CASE v.kind = "undefined" -> [nan |-> TRUE, n |-> 0]
      [] v.kind = "null" -> [nan |-> FALSE, n |-> 0]
      [] v.kind = "boolean" -> [nan |-> FALSE, n |-> v.num]
      [] v.kind = "number" -> [nan |-> FALSE, n |-> v.num]
      [] v.kind = "string" ->
            IF v.str = "" THEN [nan |-> FALSE, n |-> 0]
            ELSE IF v.str \in DOMAIN NumericStrings
                 THEN [nan |-> FALSE, n |-> NumericStrings[v.str]]
                 ELSE [nan |-> TRUE, n |-> 0]
      [] v.kind = "object" -> [nan |-> TRUE, n |-> 0]

\* v < k and v > k for a number literal k: false as soon as v is NaN
LessThan(v, k) == ~ToNumber(v).nan /\ ToNumber(v).n < k
GreaterThan(v, k) == ~ToNumber(v).nan /\ ToNumber(v).n > k

\* a JSON object: a function from key names to values
EmptyObj == [k \in {} |-> Undefined]
Mensaje(text) == [k \in {"mensaje"} |-> Str(text)]
\* { id: i, ...fields }
WithId(i, fields) ==
    [k \in {"id"} \cup DOMAIN fields |-> IF k \in DOMAIN fields THEN fields[k] ELSE Str(i)]
\* the keys of an object literal whose value is undefined
UndefinedKeys(o) == {k \in DOMAIN o : o[k] = Undefined}

(***************************************************************************)
(* Routes, in the order app.post / app.get / app.put / app.delete register *)
(* them.  path: the resource path; coll: the collection name; fields: the  *)
(* names destructured from req.body and written; truthy: fields tested     *)
(* with !x on POST; defined: fields tested against undefined on POST;      *)
(* postRange / putRange: fields tested with x < 1 || x > 5; stamp: whether *)
(* POST adds fechaRegistro.                                                *)
(***************************************************************************)
Route(path, fields, truthy, defined, postRange, putRange, stamp, faltan, noEncontrado, actualizado, eliminado) ==
    [path |-> path, coll |-> path, fields |-> fields, truthy |-> truthy,
     defined |-> defined, postRange |-> postRange, putRange |-> putRange,
     stamp |-> stamp, faltan |-> faltan, noEncontrado |-> noEncontrado,
     actualizado |-> actualizado, eliminado |-> eliminado]

Routes == <<
    Route("usuarios", {"nombre", "correo", "rol"}, {"nombre", "correo", "rol"}, {}, {}, {}, TRUE,
          "Faltan datos obligatorios: nombre, correo y rol.",
          "Usuario no encontrado.", "Usuario actualizado con exito", "Usuario eliminado con exito"),
    Route("maquinas", {"nombre", "descripcion", "precio", "distribuidor"},
          {"nombre", "descripcion", "precio", "distribuidor"}, {}, {}, {}, FALSE,
          "Faltan datos obligatorios: nombre, descripcion, precio y distribuidor.",
          "Maquina no encontrada.", "Maquina actualizada con exito", "Maquina eliminada con exito"),
    Route("alquileres", {"usuario", "maquina", "fecha_inicio", "fecha_fin", "estado"},
          {"usuario", "maquina", "fecha_inicio", "fecha_fin", "estado"}, {}, {}, {}, FALSE,
          "Faltan datos obligatorios: usuario, maquina, fecha_inicio, fecha_fin, estado.",
          "Alquiler no encontrado.", "Alquiler actualizado con exito", "Alquiler eliminado con exito"),
    Route("pagos", {"alquilerId", "monto", "metodo", "fecha_pago"},
          {"alquilerId", "monto", "metodo", "fecha_pago"}, {}, {}, {}, FALSE,
          "Faltan datos obligatorios: alquilerId, monto, metodo, fecha_pago.",
          "Pago no encontrado.", "Pago actualizado con exito", "Pago eliminado con exito"),
    Route("distribuidores", {"nombre", "correo", "telefono", "direccion"},
          {"nombre", "correo", "telefono", "direccion"}, {}, {}, {}, FALSE,
          "Faltan datos obligatorios: nombre, correo, telefono, direccion.",
          "Distribuidor no encontrado.", "Distribuidor actualizado con exito", "Distribuidor eliminado con exito"),
    Route("resenas", {"usuarioId", "productoId", "calificacion", "comentario"},
          {"usuarioId", "productoId", "calificacion"}, {"comentario"},
          {"calificacion"}, {"calificacion"}, FALSE,
          "Faltan datos obligatorios: usuarioId, productoId, calificacion, comentario.",
          "Resena no encontrada.", "Resena actualizada con exito", "Resena eliminada con exito"),
    Route("categorias", {"nombre", "descripcion"}, {"nombre", "descripcion"}, {}, {}, {}, FALSE,
          "Faltan datos obligatorios: nombre, descripcion.",
          "Categoria no encontrada.", "Categoria actualizada con exito", "Categoria eliminada con exito"),
    Route("ubicaciones", {"nombre", "direccion", "latitud", "longitud"},
          {"nombre", "direccion"}, {"latitud", "longitud"}, {}, {}, FALSE,
          "Faltan datos obligatorios: nombre, direccion, latitud, longitud.",
          "Ubicacion no encontrada.", "Ubicacion actualizada con exito", "Ubicacion eliminada con exito"),
    Route("pagos", {"usuarioId", "monto", "fecha", "metodo"},
          {"usuarioId", "monto", "fecha", "metodo"}, {}, {}, {}, FALSE,
          "Faltan datos obligatorios: usuarioId, monto, fecha, metodo.",
          "Pago no encontrado.", "Pago actualizado con exito", "Pago eliminado con exito"),
    Route("soporte", {"usuarioId", "descripcion", "fecha", "estado"},
          {"usuarioId", "descripcion", "fecha", "estado"}, {}, {}, {}, FALSE,
          "Faltan datos obligatorios: usuarioId, descripcion, fecha, estado.",
          "Solicitud de soporte no encontrada.", "Solicitud actualizada con exito", "Solicitud eliminada con exito"),
    Route("trabajadores", {"nombre", "puesto", "salario", "fechaContratacion"},
          {"nombre", "puesto", "salario", "fechaContratacion"}, {}, {}, {}, FALSE,
          "Faltan datos obligatorios: nombre, puesto, salario, fechaContratacion.",
          "Trabajador no encontrado.", "Trabajador actualizado con exito", "Trabajador eliminado con exito")
>>

Paths == {Routes[i].path : i \in DOMAIN Routes}
Collections == {Routes[i].coll : i \in DOMAIN Routes}

\* Express runs the first handler registered for a method and path; no
\* handler of this application calls next()
Dispatch(path) ==
    CHOOSE i \in DOMAIN Routes :
        /\ Routes[i].path = path
        /\ \A j \in DOMAIN Routes : Routes[j].path = path => i <= j
Handlers == [path \in Paths |-> Routes[Dispatch(path)]]
Handler(path) == Handlers[path]

ErrorInterno == "Error interno del servidor."
Bienvenido == "Bienvenido a la API de la rentadora de maquinas"
FueraDeRango == "La calificacion debe estar entre 1 y 5."

(***************************************************************************)
(* Request bodies.  A body is a JSON object over the keys a client of the  *)
(* path sends; an absent key reads as undefined when the handler           *)
(* destructures req.body.                                                  *)
(***************************************************************************)
\* keys of the documented request schema that the handler does not read
ExtraKeys(path) == IF path = "usuarios" THEN {"fechaRegistro"} ELSE {}
BodyFields(path) ==
    UNION {Routes[i].fields : i \in {j \in DOMAIN Routes : Routes[j].path = path}}
        \cup ExtraKeys(path)

Typical(f) ==
    CASE f = "calificacion" -> Num(5)
      [] f \in {"latitud", "longitud"} -> Num(4)
      [] f \in {"precio", "monto", "salario"} -> Num(7)
      [] f \in {"usuario", "maquina", "distribuidor"} -> Obj("ref")
      [] OTHER -> Str("x")

FieldValues(f) ==
    CASE f = "calificacion" -> {Undefined, Num(0), Num(1), Num(5), Num(6), Str("abc")}
      [] f \in {"latitud", "longitud"} -> {Undefined, Null, Num(0), Num(4)}
      [] f \in {"precio", "monto", "salario"} -> {Undefined, Num(0), Num(7)}
      [] f \in {"usuario", "maquina", "distribuidor"} -> {Undefined, Null, Obj("ref")}
      [] f \in {"rol", "estado"} -> {Undefined, Bool(FALSE), Str("x")}
      [] f = "fechaRegistro" -> {Undefined, Str("1999-12-31T00:00:00.000Z")}
      [] OTHER -> {Undefined, Str(""), Str("x")}

\* one sample body per handler registered for the path (the two /pagos
\* handlers read different keys), and for /ubicaciones one at the origin
Samples(path) ==
    {[f \in BodyFields(path) |-> IF f \in Routes[i].fields THEN Typical(f) ELSE Undefined] :
        i \in {j \in DOMAIN Routes : Routes[j].path = path}}
    \cup (IF path = "ubicaciones"
          THEN {[f \in BodyFields(path) |->
                    IF f \in {"latitud", "longitud"} THEN Num(0) ELSE Typical(f)]}
          ELSE {})

RECURSIVE Edits(_, _)
Edits(path, n) ==
    IF n = 0 THEN Samples(path)
    ELSE Edits(path, n - 1) \cup
         {[b EXCEPT ![f] = v] : b \in Edits(path, n - 1),
                                f \in BodyFields(path), v \in UNION {FieldValues(g) : g \in BodyFields(path)}}

AllBodies ==
    [path \in Paths |->
        {b \in Edits(path, MaxEdits) : \A f \in BodyFields(path) : b[f] \in FieldValues(f)}]
Bodies(path) == AllBodies[path]

\* instants new Date() may return, and Date.prototype.toISOString
Instants == {1, 2}
toISOString(t) == IF t = 1 THEN "2026-01-01T00:00:00.000Z" ELSE "2026-01-02T00:00:00.000Z"

(***************************************************************************)
(* The document store: db.collection(c).add / doc(id).get / update /       *)
(* delete of the Firestore client required from ./firebase.                *)
(***************************************************************************)
IdNames == <<"idA", "idB", "idC">>

VARIABLES
    db,                         \* collection name -> (document id -> fields)
    used,                       \* ids the store has generated
    ignoreUndefinedProperties,  \* Firestore setting made in ./firebase
    reqs,                       \* client -> the request it has in flight or last completed
    deleted,                    \* <<collection, id>> of every DELETE answered 200
    scope                       \* the paths the clients of this behaviour address

vars == <<db, used, ignoreUndefinedProperties, reqs, deleted, scope>>

\* every path is addressed together with another one
Scopes ==
    {{"usuarios", "alquileres"}, {"maquinas", "alquileres"}, {"pagos", "resenas"},
     {"distribuidores", "categorias"}, {"ubicaciones", "soporte"}, {"trabajadores", "pagos"}}

NoDocs == [i \in {} |-> EmptyObj]
EmptyDb == [c \in Collections |-> NoDocs]

Exists(store, coll, id) == id \in DOMAIN store[coll]

\* Firestore rejects a field value of undefined unless ignoreUndefinedProperties
\* is set, in which case the field is left out of the write
Writable(o) == ignoreUndefinedProperties \/ UndefinedKeys(o) = {}
Written(o) == [k \in DOMAIN o \ UndefinedKeys(o) |-> o[k]]

\* add keeping only the first key of the object
AddedTruncado(store, coll, id, o) ==
    [store EXCEPT ![coll] = [i \in DOMAIN store[coll] \cup {id} |->
        IF i = id
        THEN [k \in {CHOOSE k \in DOMAIN Written(o) : TRUE} |-> o[k]]
        ELSE store[coll][i]]]

\* CollectionReference.add: a new document under a generated id
Added(store, coll, id, o) ==
    [store EXCEPT ![coll] = [i \in DOMAIN store[coll] \cup {id} |->
                                IF i = id THEN Written(o) ELSE store[coll][i]]]

\* set without merge: the document becomes the object written
Reemplazado(doc, o) == Written(o)

\* DocumentReference.update: overwrites the named fields of an existing
\* document and keeps the others
Merged(doc, o) ==
    [k \in DOMAIN doc \cup DOMAIN Written(o) |->
        IF k \in DOMAIN Written(o) THEN o[k] ELSE doc[k]]
Updated(store, coll, id, o) ==
    [store EXCEPT ![coll][id] = Merged(store[coll][id], o)]

\* delete of a user or a machine that also removes the rentals
RemovedEnCascada(store, coll, id) ==
    [k \in DOMAIN store |->
        IF k = coll THEN [i \in DOMAIN store[coll] \ {id} |-> store[coll][i]]
        ELSE IF k = "alquileres" THEN NoDocs
        ELSE store[k]]

\* delete addressed to another document: nothing is removed
RemovedNada(store, coll, id) == store

\* DocumentReference.delete: succeeds whether or not the document exists
Removed(store, coll, id) ==
    [store EXCEPT ![coll] = [i \in DOMAIN store[coll] \ {id} |-> store[coll][i]]]

(***************************************************************************)
(* Requests                                                                *)
(***************************************************************************)
\* what a client that reads a document back keeps of the write it follows
NoPrev == [method |-> "", status |-> 0, threw |-> FALSE, body |-> EmptyObj,
           json |-> EmptyObj, existed |-> FALSE, before |-> EmptyObj]

Idle == [pc |-> "idle", method |-> "", path |-> "", id |-> "", body |-> EmptyObj,
         data |-> EmptyObj, status |-> 0, json |-> EmptyObj, snap |-> EmptyDb,
         threw |-> FALSE, afterDelete |-> FALSE, prev |-> NoPrev, entretanto |-> {},
         sent |-> 0]

Clients == DOMAIN reqs

\* the ids the store generates in a behaviour: MaxDocs of them, and one more
\* for each further client, so that every client may have an insert in flight
DocIds == {IdNames[i] : i \in 1..(MaxDocs + Cardinality(Clients) - 1)}
Free(c) == reqs[c].pc = "idle"

\* a request as the handler starts on it; afterDelete records the deletions
\* answered so far, and snap the store as a lone client finds it (with
\* several clients the store changes under a request, which entretanto
\* records instead)
Arrived(method, path, id, body) ==
    [Idle EXCEPT !.method = method, !.path = path, !.id = id, !.body = body,
                 !.snap = IF Cardinality(Clients) = 1 THEN db ELSE EmptyDb,
                 !.afterDelete = <<Handler(path).coll, id>> \in deleted]

\* res.status(status).json(json), or res.send: one more response sent
Respond(r, status, json) ==
    [r EXCEPT !.pc = "done", !.status = status, !.json = json, !.sent = @ + 1]
\* the catch block answering without res.status: the status stays 200
FailSinEstado(r) == [Respond(r, 200, Mensaje(ErrorInterno)) EXCEPT !.threw = TRUE]

\* the catch block of every handler
Fail(r) == [Respond(r, 500, Mensaje(ErrorInterno)) EXCEPT !.threw = TRUE]

Init ==
    /\ db = EmptyDb
    /\ used = {}
    /\ ignoreUndefinedProperties \in BOOLEAN
    /\ reqs = [c \in {1} |-> Idle]
    /\ deleted = {}
    /\ scope \in Scopes

(***************************************************************************)
(* Handlers.  Each app.post / app.get / app.put / app.delete callback runs *)
(* up to its first await when the request arrives, and resumes when the    *)
(* awaited store call returns or throws; a throw lands in the catch block. *)
(***************************************************************************)
\* Faltan testing every field against undefined only
FaltanIndefinido(h, body) ==
    \E f \in h.truthy \cup h.defined : body[f] = Undefined

\* Faltan testing every field with !x
FaltanFalsy(h, body) ==
    \E f \in h.truthy \cup h.defined : ~Truthy(body[f])

\* the presence test of a POST handler
Faltan(h, body) ==
    \/ \E f \in h.truthy : ~Truthy(body[f])
    \/ \E f \in h.defined : body[f] = Undefined

\* calificacion <= 1 || calificacion >= 5
FueraRangoEstricto(fields, body) ==
    \E f \in fields : LessThan(body[f], 2) \/ GreaterThan(body[f], 4)

\* calificacion < 1 || calificacion > 5
FueraRango(fields, body) ==
    \E f \in fields : LessThan(body[f], 1) \/ GreaterThan(body[f], 5)

\* the object literal a POST handler inserts
Nuevo(h, body, t) ==
    [f \in h.fields \cup (IF h.stamp THEN {"fechaRegistro"} ELSE {}) |->
        IF f \in h.fields THEN body[f] ELSE Str(toISOString(t))]

\* update(req.body): every key of the body is written
CambiosCuerpo(h, body) == body

\* the object literal a PUT handler passes to update
Cambios(h, body) == [f \in h.fields |-> body[f]]

\* new Date() is evaluated by the handlers that stamp; 0 stands for a clock
\* that is not read
Now(h) == IF h.stamp THEN Instants ELSE {0}

\* Leer without the test of doc.exists
LeerSinExists(store, h, id) ==
    [status |-> 200,
     json |-> WithId(id, IF Exists(store, h.coll, id) THEN store[h.coll][id] ELSE EmptyObj)]

\* what a GET handler answers once get has returned the snapshot of id
Leer(store, h, id) ==
    IF ~Exists(store, h.coll, id)
    THEN [status |-> 404, json |-> Mensaje(h.noEncontrado)]
    ELSE [status |-> 200, json |-> WithId(id, store[h.coll][id])]

\* app.post(path): validation, then the call of add
Post(c, path, body, t) ==
    /\ Free(c)
    /\ t \in Now(Handler(path))
    /\ Cardinality(used) + Cardinality({d \in Clients : reqs[d].pc = "add"}) < Cardinality(DocIds)
    /\ LET h == Handler(path)
           r == Arrived("POST", path, "", body)
       IN  reqs' = [reqs EXCEPT ![c] =
                IF Faltan(h, body) THEN Respond(r, 400, Mensaje(h.faltan))
                ELSE IF FueraRango(h.postRange, body) THEN Respond(r, 400, Mensaje(FueraDeRango))
                ELSE [r EXCEPT !.pc = "add", !.data = Nuevo(h, body, t)]]
    /\ UNCHANGED <<db, used, ignoreUndefinedProperties, deleted, scope>>

\* add under an id taken from the request, which may be in use
AddDoneRepite(c) ==
    /\ reqs[c].pc = "add"
    /\ Writable(reqs[c].data)
    /\ \E id \in DocIds :
          /\ db' = Added(db, Handler(reqs[c].path).coll, id, reqs[c].data)
          /\ used' = used \cup {id}
          /\ reqs' = [reqs EXCEPT ![c] = Respond(@, 201, WithId(id, reqs[c].data))]
    /\ UNCHANGED <<ignoreUndefinedProperties, deleted, scope>>

\* add returned: 201 with the generated id and the inserted object
AddDone(c) ==
    /\ reqs[c].pc = "add"
    /\ Writable(reqs[c].data)
    /\ \E id \in DocIds \ used :
          /\ db' = Added(db, Handler(reqs[c].path).coll, id, reqs[c].data)
          /\ used' = used \cup {id}
          /\ reqs' = [reqs EXCEPT ![c] = Respond(@, 201, WithId(id, reqs[c].data))]
    /\ UNCHANGED <<ignoreUndefinedProperties, deleted, scope>>

\* app.get / app.put / app.delete (path/:id): the call of get
Get(c, method, path, id, body) ==
    /\ Free(c)
    /\ method \in {"GET", "PUT", "DELETE"}
    /\ method # "PUT" => body = EmptyObj
    /\ reqs' = [reqs EXCEPT ![c] = [Arrived(method, path, id, body) EXCEPT !.pc = "get"]]
    /\ UNCHANGED <<db, used, ignoreUndefinedProperties, deleted, scope>>

\* GetDone with the range test of PUT placed before the existence test
GetDoneRangoPrimero(c) ==
    /\ reqs[c].pc = "get"
    /\ LET r == reqs[c]
           h == Handler(r.path)
       IN  reqs' = [reqs EXCEPT ![c] =
                IF r.method = "GET" THEN Respond(r, Leer(db, h, r.id).status, Leer(db, h, r.id).json)
                ELSE IF r.method = "PUT" /\ FueraRango(h.putRange, r.body)
                THEN Respond(r, 400, Mensaje(FueraDeRango))
                ELSE IF ~Exists(db, h.coll, r.id) THEN Respond(r, 404, Mensaje(h.noEncontrado))
                ELSE CASE r.method = "PUT" -> [r EXCEPT !.pc = "update", !.data = Cambios(h, r.body)]
                       [] r.method = "DELETE" -> [r EXCEPT !.pc = "delete"]]
    /\ UNCHANGED <<db, used, ignoreUndefinedProperties, deleted, scope>>

\* GetDone whose 404 branch lacks the return: the handler answers 404 and
\* goes on to the write
GetDoneSinReturn(c) ==
    /\ reqs[c].pc = "get"
    /\ LET r == reqs[c]
           h == Handler(r.path)
           q == IF Exists(db, h.coll, r.id) THEN r ELSE Respond(r, 404, Mensaje(h.noEncontrado))
       IN  reqs' = [reqs EXCEPT ![c] =
                IF r.method = "GET" THEN Respond(r, Leer(db, h, r.id).status, Leer(db, h, r.id).json)
                ELSE CASE r.method = "PUT" ->
                            IF FueraRango(h.putRange, r.body)
                            THEN Respond(q, 400, Mensaje(FueraDeRango))
                            ELSE [q EXCEPT !.pc = "update", !.data = Cambios(h, r.body)]
                       [] r.method = "DELETE" -> [q EXCEPT !.pc = "delete"]]
    /\ UNCHANGED <<db, used, ignoreUndefinedProperties, deleted, scope>>

\* GetDone without the test of doc.exists in PUT and DELETE
GetDoneSinExistencia(c) ==
    /\ reqs[c].pc = "get"
    /\ LET r == reqs[c]
           h == Handler(r.path)
       IN  reqs' = [reqs EXCEPT ![c] =
                IF r.method = "GET" THEN Respond(r, Leer(db, h, r.id).status, Leer(db, h, r.id).json)
                ELSE CASE r.method = "PUT" ->
                            IF FueraRango(h.putRange, r.body)
                            THEN Respond(r, 400, Mensaje(FueraDeRango))
                            ELSE [r EXCEPT !.pc = "update", !.data = Cambios(h, r.body)]
                       [] r.method = "DELETE" -> [r EXCEPT !.pc = "delete"]]
    /\ UNCHANGED <<db, used, ignoreUndefinedProperties, deleted, scope>>

\* GetDone with the presence test of POST repeated in PUT
GetDoneValidaPresencia(c) ==
    /\ reqs[c].pc = "get"
    /\ LET r == reqs[c]
           h == Handler(r.path)
       IN  reqs' = [reqs EXCEPT ![c] =
                IF r.method = "GET" THEN Respond(r, Leer(db, h, r.id).status, Leer(db, h, r.id).json)
                ELSE IF ~Exists(db, h.coll, r.id) THEN Respond(r, 404, Mensaje(h.noEncontrado))
                ELSE CASE r.method = "PUT" ->
                            IF Faltan(h, r.body) THEN Respond(r, 400, Mensaje(h.faltan))
                            ELSE IF FueraRango(h.putRange, r.body)
                            THEN Respond(r, 400, Mensaje(FueraDeRango))
                            ELSE [r EXCEPT !.pc = "update", !.data = Cambios(h, r.body)]
                       [] r.method = "DELETE" -> [r EXCEPT !.pc = "delete"]]
    /\ UNCHANGED <<db, used, ignoreUndefinedProperties, deleted, scope>>

\* GetDone with the range test of PUT placed after the write
GetDoneEscribeAntes(c) ==
    /\ reqs[c].pc = "get"
    /\ LET r == reqs[c]
           h == Handler(r.path)
           fuera == r.method = "PUT" /\ Exists(db, h.coll, r.id) /\ FueraRango(h.putRange, r.body)
       IN  /\ reqs' = [reqs EXCEPT ![c] =
                IF r.method = "GET" THEN Respond(r, Leer(db, h, r.id).status, Leer(db, h, r.id).json)
                ELSE IF ~Exists(db, h.coll, r.id) THEN Respond(r, 404, Mensaje(h.noEncontrado))
                ELSE CASE r.method = "PUT" ->
                            IF fuera THEN Respond(r, 400, Mensaje(FueraDeRango))
                            ELSE [r EXCEPT !.pc = "update", !.data = Cambios(h, r.body)]
                       [] r.method = "DELETE" -> [r EXCEPT !.pc = "delete"]]
           /\ db' = IF fuera /\ Writable(Cambios(h, r.body))
                    THEN Updated(db, h.coll, r.id, Cambios(h, r.body)) ELSE db
    /\ UNCHANGED <<used, ignoreUndefinedProperties, deleted, scope>>

\* get returned: the existence test and what follows it
GetDone(c) ==
    /\ reqs[c].pc = "get"
    /\ LET r == reqs[c]
           h == Handler(r.path)
       IN  reqs' = [reqs EXCEPT ![c] =
                IF r.method = "GET" THEN Respond(r, Leer(db, h, r.id).status, Leer(db, h, r.id).json)
                ELSE IF ~Exists(db, h.coll, r.id) THEN Respond(r, 404, Mensaje(h.noEncontrado))
                ELSE CASE r.method = "PUT" ->
                            IF FueraRango(h.putRange, r.body)
                            THEN Respond(r, 400, Mensaje(FueraDeRango))
                            ELSE [r EXCEPT !.pc = "update", !.data = Cambios(h, r.body)]
                       [] r.method = "DELETE" -> [r EXCEPT !.pc = "delete"]]
    /\ UNCHANGED <<db, used, ignoreUndefinedProperties, deleted, scope>>

\* a request in flight on the document <<coll, id>> records the last write
\* that another request applied to it meanwhile, and where it stood itself
Visto(r, method, coll, id, data) ==
    IF r.pc \in {"get", "update", "delete"} /\ Handler(r.path).coll = coll /\ r.id = id
    THEN [r EXCEPT !.entretanto = {<<method, r.pc, data>>}]
    ELSE r

\* set(data, {merge: true}) in place of update: the write creates the
\* document when it is missing
UpdateDoneUpsert(c) ==
    /\ reqs[c].pc = "update"
    /\ Writable(reqs[c].data)
    /\ LET coll == Handler(reqs[c].path).coll
           id == reqs[c].id
           doc == IF Exists(db, coll, id) THEN db[coll][id] ELSE EmptyObj
       IN  db' = [db EXCEPT ![coll] = [i \in DOMAIN db[coll] \cup {id} |->
                        IF i = id THEN Merged(doc, reqs[c].data) ELSE db[coll][i]]]
    /\ reqs' = [d \in Clients |->
                    IF d = c THEN Respond(reqs[c], 200, Mensaje(Handler(reqs[c].path).actualizado))
                    ELSE Visto(reqs[d], "PUT", Handler(reqs[c].path).coll, reqs[c].id, reqs[c].data)]
    /\ UNCHANGED <<used, ignoreUndefinedProperties, deleted, scope>>

\* update returned: 200 with the fixed message
UpdateDone(c) ==
    /\ reqs[c].pc = "update"
    /\ Writable(reqs[c].data)
    /\ Exists(db, Handler(reqs[c].path).coll, reqs[c].id)
    /\ db' = Updated(db, Handler(reqs[c].path).coll, reqs[c].id, reqs[c].data)
    /\ reqs' = [d \in Clients |->
                    IF d = c THEN Respond(reqs[c], 200, Mensaje(Handler(reqs[c].path).actualizado))
                    ELSE Visto(reqs[d], "PUT", Handler(reqs[c].path).coll, reqs[c].id, reqs[c].data)]
    /\ UNCHANGED <<used, ignoreUndefinedProperties, deleted, scope>>

\* delete returned: 200 with the fixed message
DeleteDone(c) ==
    /\ reqs[c].pc = "delete"
    /\ db' = Removed(db, Handler(reqs[c].path).coll, reqs[c].id)
    /\ deleted' = deleted \cup {<<Handler(reqs[c].path).coll, reqs[c].id>>}
    /\ reqs' = [d \in Clients |->
                    IF d = c THEN Respond(reqs[c], 200, Mensaje(Handler(reqs[c].path).eliminado))
                    ELSE Visto(reqs[d], "DELETE", Handler(reqs[c].path).coll, reqs[c].id, EmptyObj)]
    /\ UNCHANGED <<used, ignoreUndefinedProperties, scope>>

\* the awaited store call threw (a rejected value, a missing document on
\* update, or the store being unreachable): the catch block answers 500
Throws(c) ==
    /\ reqs[c].pc \in {"add", "get", "update", "delete"}
    /\ reqs' = [reqs EXCEPT ![c] = Fail(@)]
    /\ UNCHANGED <<db, used, ignoreUndefinedProperties, deleted, scope>>

\* the client takes the response of a POST answered 201, of a PUT or of a
\* GET by id, and at once sends a GET of the same document
ReadBack(c) ==
    /\ reqs[c].pc = "done"
    /\ \/ reqs[c].method = "POST" /\ reqs[c].status = 201
       \/ reqs[c].method = "PUT"
       \/ reqs[c].method = "GET" /\ reqs[c].path \in Paths
    /\ LET r == reqs[c]
           coll == Handler(r.path).coll
           id == IF r.method = "POST" THEN r.json["id"].str ELSE r.id
           existed == Exists(r.snap, coll, id)
       IN  reqs' = [reqs EXCEPT ![c] =
                [Arrived("GET", r.path, id, EmptyObj) EXCEPT
                    !.pc = "get",
                    !.prev = [method |-> r.method, status |-> r.status, threw |-> r.threw,
                              body |-> r.body, json |-> r.json, existed |-> existed,
                              before |-> IF existed THEN r.snap[coll][id] ELSE EmptyObj]]]
    /\ UNCHANGED <<db, used, ignoreUndefinedProperties, deleted, scope>>

\* a health check that reads the store before answering
RootConsulta(c) ==
    /\ reqs[c].pc \in {"idle", "done"}
    /\ \E ok \in BOOLEAN :
          LET r == [Idle EXCEPT !.method = "GET", !.path = "/",
                                !.snap = IF Cardinality(Clients) = 1 THEN db ELSE EmptyDb,
                                !.prev = [NoPrev EXCEPT !.method = reqs[c].method,
                                                        !.status = reqs[c].status,
                                                        !.threw = reqs[c].threw]]
          IN  reqs' = [reqs EXCEPT ![c] = IF ok THEN Respond(r, 200, Str(Bienvenido)) ELSE Fail(r)]
    /\ UNCHANGED <<db, used, ignoreUndefinedProperties, deleted, scope>>

\* app.get("/"): res.send of the welcome text, with no await; the client
\* sends it when it has no request pending, or on taking a response, of
\* which prev keeps the method, the status and whether a store call failed
Root(c) ==
    /\ reqs[c].pc \in {"idle", "done"}
    /\ LET r == [Idle EXCEPT !.method = "GET", !.path = "/",
                             !.snap = IF Cardinality(Clients) = 1 THEN db ELSE EmptyDb,
                             !.prev = [NoPrev EXCEPT !.method = reqs[c].method,
                                                     !.status = reqs[c].status,
                                                     !.threw = reqs[c].threw]]
       IN  reqs' = [reqs EXCEPT ![c] = Respond(r, 200, Str(Bienvenido))]
    /\ UNCHANGED <<db, used, ignoreUndefinedProperties, deleted, scope>>

\* the client takes the response
Receive(c) ==
    /\ reqs[c].pc = "done"
    /\ reqs' = [reqs EXCEPT ![c] = Idle]
    /\ UNCHANGED <<db, used, ignoreUndefinedProperties, deleted, scope>>

Next ==
    \E c \in Clients :
        \/ \E path \in scope : \E body \in Bodies(path), t \in Instants \cup {0} : Post(c, path, body, t)
        \/ \E path \in scope, id \in DocIds : Get(c, "GET", path, id, EmptyObj)
        \/ \E path \in scope : \E id \in DocIds, body \in Bodies(path) : Get(c, "PUT", path, id, body)
        \/ \E path \in scope, id \in DocIds : Get(c, "DELETE", path, id, EmptyObj)
        \/ AddDone(c)
        \/ GetDone(c)
        \/ UpdateDone(c)
        \/ DeleteDone(c)
        \/ Throws(c)
        \/ ReadBack(c)
        \/ Root(c)
        \/ Receive(c)

Spec == Init /\ [][Next]_vars

\* the store call that a handler awaits returns or throws
Retorna ==
    \E c \in Clients : AddDone(c) \/ GetDone(c) \/ UpdateDone(c) \/ DeleteDone(c) \/ Throws(c)

\* every store call eventually returns or throws: the promise a handler
\* awaits is settled and the event loop resumes the handler
SpecJusta == Spec /\ WF_vars(Retorna)

(***************************************************************************)
(* Two clients on one resource.  Node runs one callback at a time, but a   *)
(* handler gives up the thread at each await, so the steps of two requests *)
(* interleave at the store calls.                                          *)
(***************************************************************************)
ScopesConcurrente == {{"categorias"}}

InitConcurrente ==
    /\ db = EmptyDb
    /\ used = {}
    /\ ignoreUndefinedProperties \in BOOLEAN
    /\ reqs = [c \in {1, 2} |-> Idle]
    /\ deleted = {}
    /\ scope \in ScopesConcurrente

NextConcurrente ==
    \E c \in Clients :
        \/ \E path \in scope : \E body \in Bodies(path) : Post(c, path, body, 0)
        \/ \E path \in scope, id \in DocIds : Get(c, "GET", path, id, EmptyObj)
        \/ \E path \in scope : \E id \in DocIds, body \in Bodies(path) : Get(c, "PUT", path, id, body)
        \/ \E path \in scope, id \in DocIds : Get(c, "DELETE", path, id, EmptyObj)
        \/ AddDone(c)
        \/ GetDone(c)
        \/ UpdateDone(c)
        \/ DeleteDone(c)
        \/ Throws(c)
        \/ Receive(c)

SpecConcurrente == InitConcurrente /\ [][NextConcurrente]_vars

(***************************************************************************)
(* Two clients on rentals and on the users or machines that rentals refer  *)
(* to, each sending the sample body of the resource.                       *)
(***************************************************************************)
ScopesReferencias == {{"usuarios", "alquileres"}, {"maquinas", "alquileres"}}

InitReferencias ==
    /\ db = EmptyDb
    /\ used = {}
    /\ ignoreUndefinedProperties \in BOOLEAN
    /\ reqs = [c \in {1, 2} |-> Idle]
    /\ deleted = {}
    /\ scope \in ScopesReferencias

NextReferencias ==
    \E c \in Clients :
        \/ \E path \in scope : \E body \in Samples(path), t \in Instants \cup {0} : Post(c, path, body, t)
        \/ \E path \in scope, id \in DocIds : Get(c, "GET", path, id, EmptyObj)
        \/ \E path \in scope : \E id \in DocIds, body \in Samples(path) : Get(c, "PUT", path, id, body)
        \/ \E path \in scope, id \in DocIds : Get(c, "DELETE", path, id, EmptyObj)
        \/ AddDone(c)
        \/ GetDone(c)
        \/ UpdateDone(c)
        \/ DeleteDone(c)
        \/ Throws(c)
        \/ Receive(c)

SpecReferencias == InitReferencias /\ [][NextReferencias]_vars


(***************************************************************************)
(* Vocabulary of the properties: the required fields of each resource as   *)
(* the specification tabulates them.  A payment names a rental or a user.  *)
(***************************************************************************)
Requeridos ==
    [path \in Paths |->
        CASE path = "usuarios" -> {{"nombre", "correo", "rol"}}
          [] path = "maquinas" -> {{"nombre", "descripcion", "precio", "distribuidor"}}
          [] path = "alquileres" -> {{"usuario", "maquina", "fecha_inicio", "fecha_fin", "estado"}}
          [] path = "pagos" -> {{"alquilerId", "monto", "metodo", "fecha_pago"},
                                {"usuarioId", "monto", "fecha", "metodo"}}
          [] path = "distribuidores" -> {{"nombre", "correo", "telefono", "direccion"}}
          [] path = "resenas" -> {{"usuarioId", "productoId", "calificacion", "comentario"}}
          [] path = "categorias" -> {{"nombre", "descripcion"}}
          [] path = "ubicaciones" -> {{"nombre", "direccion", "latitud", "longitud"}}
          [] path = "soporte" -> {{"usuarioId", "descripcion", "fecha", "estado"}}
          [] path = "trabajadores" -> {{"nombre", "puesto", "salario", "fechaContratacion"}}]

\* fields for which being defined is enough
SoloDefinido == {"comentario", "latitud", "longitud"}

\* empty string, zero, false, null and undefined
Vacio(v) ==
    \/ v.kind \in {"undefined", "null"}
    \/ v.kind = "string" /\ v.str = ""
    \/ v.kind \in {"number", "boolean"} /\ v.num = 0

Ausente(f, v) == IF f \in SoloDefinido THEN v = Undefined ELSE Vacio(v)

EnRango(v) == v.kind = "number" /\ v.num >= 1 /\ v.num <= 5

\* every field of the set S is present in P, and a rating is within range
Valido(P, S) ==
    \A f \in S : ~Ausente(f, P[f]) /\ (f = "calificacion" => EnRango(P[f]))

Completo(path, P) == \E S \in Requeridos[path] : Valido(P, S)

\* whichever way the resource may be written, a required field is missing
FaltaAlgo(path, P) == \A S \in Requeridos[path] : \E f \in S : Ausente(f, P[f])

\* a request on a resource has been answered
Terminada(c, method) ==
    reqs[c].pc = "done" /\ reqs[c].method = method /\ reqs[c].path \in Paths

Coll(c) == Handler(reqs[c].path).coll

\* the store differs from the snapshot only by the document id of coll
SoloCambia(before, after, coll, id) ==
    /\ \A k \in Collections \ {coll} : after[k] = before[k]
    /\ DOMAIN after[coll] \ {id} = DOMAIN before[coll] \ {id}
    /\ \A i \in DOMAIN before[coll] \ {id} : after[coll][i] = before[coll][i]

(***************************************************************************)
(* C1.  A POST whose body has every required field of the resource present *)
(* and valid, and whose store call does not fail, is answered 201 with a   *)
(* non-empty id and the submitted fields, and exactly one document with    *)
(* those fields has been inserted into the collection of the resource.     *)
(***************************************************************************)
C1_CreateValid ==
    \A c \in Clients :
        (Terminada(c, "POST") /\ Completo(reqs[c].path, reqs[c].body) /\ ~reqs[c].threw) =>
            /\ reqs[c].status = 201
            /\ reqs[c].json["id"].str # ""
            /\ ~Exists(reqs[c].snap, Coll(c), reqs[c].json["id"].str)
            /\ Exists(db, Coll(c), reqs[c].json["id"].str)
            /\ SoloCambia(reqs[c].snap, db, Coll(c), reqs[c].json["id"].str)
            /\ \E S \in Requeridos[reqs[c].path] :
                  /\ Valido(reqs[c].body, S)
                  /\ \A f \in S :
                        /\ f \in DOMAIN reqs[c].json
                        /\ reqs[c].json[f] = reqs[c].body[f]
                        /\ f \in DOMAIN db[Coll(c)][reqs[c].json["id"].str]
                        /\ db[Coll(c)][reqs[c].json["id"].str][f] = reqs[c].body[f]

(***************************************************************************)
(* C2.  A POST whose body misses a required field of the resource (absent, *)
(* or empty string, zero, false or null for a field tested for truthiness) *)
(* is answered 400 and inserts nothing: the store is as it was when the    *)
(* request arrived.                                                        *)
(***************************************************************************)
C2_CreateMissing ==
    \A c \in Clients :
        (Terminada(c, "POST") /\ FaltaAlgo(reqs[c].path, reqs[c].body)) =>
            /\ reqs[c].status = 400
            /\ db = reqs[c].snap

C2_Witness ==
    \E c \in Clients :
        /\ Terminada(c, "POST")
        /\ FaltaAlgo(reqs[c].path, reqs[c].body)
        /\ \E f \in DOMAIN reqs[c].body :
              reqs[c].body[f] # Undefined /\ Vacio(reqs[c].body[f]) /\ f \notin SoloDefinido
        /\ reqs[c].status = 400

(***************************************************************************)
(* C3.  A GET sent for the id that a POST has just returned with 201, and  *)
(* whose store call does not fail, is answered 200 with the body the POST  *)
(* returned, in which every required field has the value submitted to the  *)
(* POST.                                                                   *)
(***************************************************************************)
C3_RoundTrip ==
    \A c \in Clients :
        (Terminada(c, "GET") /\ reqs[c].prev.method = "POST" /\ ~reqs[c].threw) =>
            /\ reqs[c].status = 200
            /\ reqs[c].json = reqs[c].prev.json
            /\ \E S \in Requeridos[reqs[c].path] :
                  \A f \in S : f \in DOMAIN reqs[c].json /\ reqs[c].json[f] = reqs[c].prev.body[f]

C3_Witness ==
    \E c \in Clients :
        /\ Terminada(c, "GET")
        /\ reqs[c].prev.method = "POST"
        /\ reqs[c].status = 200
        /\ reqs[c].json["id"].str = reqs[c].id

(***************************************************************************)
(* C4.  A GET of an id that is not in the collection of the resource when  *)
(* the handler looks it up is answered 404 with the not-found message of   *)
(* the resource, whatever the other collections hold.                      *)
(***************************************************************************)
C4_ReadUnknown ==
    \A c \in Clients :
        (Terminada(c, "GET") /\ ~Exists(reqs[c].snap, Coll(c), reqs[c].id) /\ ~reqs[c].threw) =>
            /\ reqs[c].status = 404
            /\ reqs[c].json = Mensaje(Handler(reqs[c].path).noEncontrado)

C4_Witness ==
    \E c \in Clients :
        /\ Terminada(c, "GET")
        /\ reqs[c].status = 404
        /\ \E k \in Collections \ {Coll(c)} : Exists(db, k, reqs[c].id)

\* the fields a body names
Nombrados(P) == {f \in DOMAIN P : P[f] # Undefined}

\* a GET that reads back the document of a PUT, neither failing in the store
LeidoTrasPut(c) ==
    /\ Terminada(c, "GET")
    /\ reqs[c].prev.method = "PUT"
    /\ ~reqs[c].prev.threw
    /\ ~reqs[c].threw

(***************************************************************************)
(* C5 as stated.  A PUT on an existing document followed by a GET of the   *)
(* id, no store call failing: the GET returns every field the body of the  *)
(* PUT names with the value of the body, and every other stored field with *)
(* the value it had before the PUT.                                        *)
(***************************************************************************)
C5_UpdateReflects ==
    \A c \in Clients :
        (LeidoTrasPut(c) /\ reqs[c].prev.existed) =>
            /\ reqs[c].status = 200
            /\ \A f \in Nombrados(reqs[c].prev.body) :
                  f \in DOMAIN reqs[c].json /\ reqs[c].json[f] = reqs[c].prev.body[f]
            /\ \A f \in DOMAIN reqs[c].prev.before \ Nombrados(reqs[c].prev.body) :
                  f \in DOMAIN reqs[c].json /\ reqs[c].json[f] = reqs[c].prev.before[f]

(***************************************************************************)
(* C5 as amended.  A PUT answered 200 followed by a GET of the id whose    *)
(* store call does not fail: the GET returns every field that the body     *)
(* names and the PUT handler of the resource writes with the value of the  *)
(* body, every other stored field with the value it had before the PUT,    *)
(* and no further field.                                                   *)
(***************************************************************************)
C5_UpdateMerges ==
    \A c \in Clients :
        (LeidoTrasPut(c) /\ reqs[c].prev.status = 200) =>
            LET escritos == Nombrados(reqs[c].prev.body) \cap Handler(reqs[c].path).fields
            IN  /\ reqs[c].status = 200
                /\ DOMAIN reqs[c].json = {"id"} \cup DOMAIN reqs[c].prev.before \cup escritos
                /\ \A f \in escritos : reqs[c].json[f] = reqs[c].prev.body[f]
                /\ \A f \in DOMAIN reqs[c].prev.before \ escritos :
                      reqs[c].json[f] = reqs[c].prev.before[f]

\* a PUT naming a subset of the fields was answered 200 and read back: a
\* field it does not name was kept and a field it names was changed
C5_Witness ==
    \E c \in Clients :
        /\ LeidoTrasPut(c)
        /\ reqs[c].prev.status = 200
        /\ reqs[c].status = 200
        /\ \E f \in Handler(reqs[c].path).fields :
              /\ reqs[c].prev.body[f] = Undefined
              /\ f \in DOMAIN reqs[c].json
        /\ \E g \in Handler(reqs[c].path).fields :
              /\ reqs[c].prev.body[g] # Undefined
              /\ reqs[c].prev.before[g] # reqs[c].json[g]

(***************************************************************************)
(* C6.  A GET or a DELETE of an id that arrives after a DELETE of that id  *)
(* was answered 200, and whose store call does not fail, is answered 404.  *)
(***************************************************************************)
C6_DeleteThenAbsent ==
    \A c \in Clients :
        (reqs[c].pc = "done" /\ reqs[c].method \in {"GET", "DELETE"}
            /\ reqs[c].afterDelete /\ ~reqs[c].threw) =>
            reqs[c].status = 404

C6_Witness ==
    \E c \in Clients :
        /\ Terminada(c, "DELETE")
        /\ reqs[c].afterDelete
        /\ reqs[c].status = 404

(***************************************************************************)
(* C7.  Reviews: a POST, and a PUT on an existing review, with rating 0 or *)
(* 6 are answered 400 and write nothing; with a rating from 1 to 5, the    *)
(* other fields valid and no failing store call, the POST is answered 201  *)
(* and the PUT 200.                                                        *)
(***************************************************************************)
C7_RatingBounds ==
    \A c \in Clients :
        (reqs[c].pc = "done" /\ reqs[c].path = "resenas" /\ ~reqs[c].threw
            /\ (reqs[c].method = "POST"
                  \/ (reqs[c].method = "PUT" /\ Exists(reqs[c].snap, "resenas", reqs[c].id)))
            /\ reqs[c].body["calificacion"].kind = "number") =>
            /\ ~EnRango(reqs[c].body["calificacion"]) =>
                  reqs[c].status = 400 /\ db = reqs[c].snap
            /\ (EnRango(reqs[c].body["calificacion"]) /\ Completo("resenas", reqs[c].body)) =>
                  reqs[c].status = IF reqs[c].method = "POST" THEN 201 ELSE 200

C7_Witness ==
    \E c \in Clients :
        /\ Terminada(c, "PUT")
        /\ reqs[c].path = "resenas"
        /\ reqs[c].body["calificacion"] = Num(1)
        /\ reqs[c].status = 200
        /\ db["resenas"][reqs[c].id]["calificacion"] = Num(1)

(***************************************************************************)
(* C8.  Locations: a POST with a non-empty name and address and a defined  *)
(* latitude and longitude, zero included, whose store call does not fail,  *)
(* is answered 201 and stores the coordinates as submitted; a POST with an *)
(* undefined latitude or longitude is answered 400.                        *)
(***************************************************************************)
C8_ZeroCoordinate ==
    \A c \in Clients :
        (Terminada(c, "POST") /\ reqs[c].path = "ubicaciones") =>
            /\ (~Vacio(reqs[c].body["nombre"]) /\ ~Vacio(reqs[c].body["direccion"])
                  /\ reqs[c].body["latitud"] # Undefined /\ reqs[c].body["longitud"] # Undefined
                  /\ ~reqs[c].threw) =>
                  /\ reqs[c].status = 201
                  /\ \A f \in {"latitud", "longitud"} :
                        db["ubicaciones"][reqs[c].json["id"].str][f] = reqs[c].body[f]
            /\ (reqs[c].body["latitud"] = Undefined \/ reqs[c].body["longitud"] = Undefined) =>
                  reqs[c].status = 400

C8_Witness ==
    \E c \in Clients :
        /\ Terminada(c, "POST")
        /\ reqs[c].path = "ubicaciones"
        /\ reqs[c].body["latitud"] = Num(0)
        /\ reqs[c].body["longitud"] = Num(0)
        /\ reqs[c].status = 201
        /\ db["ubicaciones"][reqs[c].json["id"].str]["longitud"] = Num(0)

(***************************************************************************)
(* C9.  A PUT of an id that is not in the collection, whose store call     *)
(* does not fail, is answered 404 whatever its body: a review PUT with an  *)
(* out-of-range rating on a missing id is answered 404, not 400.           *)
(***************************************************************************)
C9_UpdateMissing ==
    \A c \in Clients :
        (Terminada(c, "PUT") /\ ~Exists(reqs[c].snap, Coll(c), reqs[c].id) /\ ~reqs[c].threw) =>
            /\ reqs[c].status = 404
            /\ db = reqs[c].snap

C9_Witness ==
    \E c \in Clients :
        /\ Terminada(c, "PUT")
        /\ reqs[c].path = "resenas"
        /\ reqs[c].body["calificacion"] = Num(6)
        /\ ~Exists(reqs[c].snap, "resenas", reqs[c].id)
        /\ reqs[c].status = 404

(***************************************************************************)
(* C10.  Every stored document has a present, non-empty value for every    *)
(* required field of its resource.                                         *)
(***************************************************************************)
C10_RequiredKept ==
    \A path \in Paths :
        \A id \in DOMAIN db[Handler(path).coll] :
            \E S \in Requeridos[path] :
                \A f \in S :
                    /\ f \in DOMAIN db[Handler(path).coll][id]
                    /\ ~Ausente(f, db[Handler(path).coll][id][f])

(***************************************************************************)
(* C11.  Every stored review has a numeric rating from 1 to 5, whatever    *)
(* POSTs and PUTs of reviews have been served.                             *)
(***************************************************************************)
C11_RatingStored ==
    \A id \in DOMAIN db["resenas"] :
        /\ "calificacion" \in DOMAIN db["resenas"][id]
        /\ EnRango(db["resenas"][id]["calificacion"])

(***************************************************************************)
(* C12.  A request one of whose store calls (add, get, update or delete)   *)
(* failed is answered 500 with the generic message, the same for every     *)
(* handler, and with no other status.                                      *)
(***************************************************************************)
C12_StoreFailure ==
    \A c \in Clients :
        (reqs[c].pc = "done" /\ reqs[c].threw) =>
            /\ reqs[c].status = 500
            /\ reqs[c].json = Mensaje(ErrorInterno)

C12_Witness ==
    \E c \in Clients :
        /\ Terminada(c, "DELETE")
        /\ reqs[c].threw
        /\ Exists(db, Coll(c), reqs[c].id)
        /\ reqs[c].status = 500

(***************************************************************************)
(* C13.  The status of a response is 201, 400 or 500 for a POST; 200, 404  *)
(* or 500 for a GET by id and for a DELETE; 200, 404, 400 or 500 for a     *)
(* PUT, and 400 only for a review whose rating is outside 1..5.            *)
(***************************************************************************)
C13_StatusSets ==
    \A c \in Clients :
        reqs[c].pc = "done" =>
            /\ reqs[c].method = "POST" => reqs[c].status \in {201, 400, 500}
            /\ reqs[c].method \in {"GET", "DELETE"} => reqs[c].status \in {200, 404, 500}
            /\ reqs[c].method = "PUT" =>
                  /\ reqs[c].status \in {200, 404, 400, 500}
                  /\ reqs[c].status = 400 =>
                        /\ reqs[c].path = "resenas"
                        /\ ~EnRango(reqs[c].body["calificacion"])

C13_Witness ==
    \E c \in Clients :
        /\ Terminada(c, "PUT")
        /\ reqs[c].path = "resenas"
        /\ reqs[c].status = 400
        /\ reqs[c].json = Mensaje(FueraDeRango)

(***************************************************************************)
(* C14.  A POST /pagos whose body names a rental (alquilerId, monto,       *)
(* metodo, fecha_pago) or a user (usuarioId, monto, fecha, metodo), every  *)
(* field of that shape non-empty, and whose store call does not fail, is   *)
(* answered 201 and the document inserted has the fields of that shape as  *)
(* submitted.                                                              *)
(***************************************************************************)
C14_PagoEitherRef ==
    \A c \in Clients :
        (Terminada(c, "POST") /\ reqs[c].path = "pagos" /\ ~reqs[c].threw) =>
            \A S \in Requeridos["pagos"] :
                Valido(reqs[c].body, S) =>
                    /\ reqs[c].status = 201
                    /\ \A f \in S :
                          /\ f \in DOMAIN db["pagos"][reqs[c].json["id"].str]
                          /\ db["pagos"][reqs[c].json["id"].str][f] = reqs[c].body[f]

(***************************************************************************)
(* C15.  When a request has been answered 400, 404 or 500, every           *)
(* collection holds what it held when the request arrived; the requests    *)
(* that follow it therefore find the store they would have found without   *)
(* it.                                                                     *)
(***************************************************************************)
C15_FailureWritesNothing ==
    \A c \in Clients :
        (reqs[c].pc = "done" /\ reqs[c].status \in {400, 404, 500}) =>
            db = reqs[c].snap

C15_Witness ==
    \E c \in Clients :
        /\ Terminada(c, "PUT")
        /\ reqs[c].status = 500
        /\ Exists(reqs[c].snap, Coll(c), reqs[c].id)
        /\ \E f \in DOMAIN reqs[c].body :
              /\ reqs[c].body[f] # Undefined
              /\ f \in DOMAIN db[Coll(c)][reqs[c].id]
              /\ db[Coll(c)][reqs[c].id][f] # reqs[c].body[f]

\* client c's request is answered in this step, by the store call it awaited
Responde(c, method, status) ==
    /\ reqs[c].pc \in {"add", "update", "delete"}
    /\ reqs[c].method = method
    /\ reqs'[c].pc = "done"
    /\ reqs'[c].status = status

\* the payloads of the PUTs that the store applied to the document of c's
\* request while that request was in flight
Solapados(c) == {e[3] : e \in {w \in reqs[c].entretanto : w[1] = "PUT"}}

C17_NoResurrection ==
    \A c \in Clients :
        /\ (Terminada(c, "PUT") /\ \E e \in reqs[c].entretanto : e[1] = "DELETE" /\ e[2] = "update") =>
              /\ reqs[c].status # 200
              /\ ~Exists(db, Coll(c), reqs[c].id)
        /\ (Terminada(c, "GET") /\ reqs[c].afterDelete /\ ~reqs[c].threw) =>
              /\ reqs[c].status = 404
              /\ ~Exists(db, Coll(c), reqs[c].id)

C17_Witness ==
    \E c \in Clients :
        /\ Terminada(c, "PUT")
        /\ \E e \in reqs[c].entretanto : e[1] = "DELETE" /\ e[2] = "update"
        /\ reqs[c].status = 500
        /\ \E d \in Clients \ {c} :
              /\ Terminada(d, "GET")
              /\ reqs[d].id = reqs[c].id
              /\ reqs[d].afterDelete
              /\ reqs[d].status = 404

(***************************************************************************)
(* C18.  No two DELETEs of the same id are both answered 200.              *)
(***************************************************************************)
C18_OneDelete200 ==
    \A c, d \in Clients :
        (c # d /\ Terminada(c, "DELETE") /\ Terminada(d, "DELETE")
            /\ Coll(c) = Coll(d) /\ reqs[c].id = reqs[d].id) =>
            ~(reqs[c].status = 200 /\ reqs[d].status = 200)

(***************************************************************************)
(* C19.  The store calls of a request: a POST issues add as its only call; *)
(* a GET issues get and nothing else; a PUT or a DELETE issues get and,    *)
(* only from there and only when the document exists as get returns,       *)
(* update or delete; once add, update or delete is issued the request      *)
(* issues no further call; and the store changes only as an add, update or *)
(* delete returns.                                                         *)
(***************************************************************************)
C19_CallOrder ==
    [][\A c \in Clients :
          LET r == reqs[c]
              n == reqs'[c]
          IN  n.pc # r.pc =>
                  /\ n.pc = "add" => r.pc = "idle" /\ n.method = "POST"
                  /\ n.pc = "get" => r.pc \in {"idle", "done"} /\ n.method # "POST"
                  /\ n.pc = "update" =>
                        r.pc = "get" /\ r.method = "PUT" /\ Exists(db, Coll(c), r.id)
                  /\ n.pc = "delete" =>
                        r.pc = "get" /\ r.method = "DELETE" /\ Exists(db, Coll(c), r.id)
                  /\ r.pc \in {"add", "update", "delete"} => n.pc = "done"
                  /\ (r.pc = "get" /\ r.method = "GET") => n.pc = "done"
                  /\ db' # db =>
                        /\ r.pc = "add" \/ r.pc = "update" \/ r.pc = "delete"
                        /\ n.status \in {200, 201}]_vars

C19_Witness ==
    \E c \in Clients :
        /\ reqs[c].pc = "delete"
        /\ Exists(db, Coll(c), reqs[c].id)

(***************************************************************************)
(* C20.  A POST answered 201 returns an id that the store has not given    *)
(* out before and that is not in the collection, and adds exactly that id  *)
(* to the collection; a DELETE answered 200 removes exactly its id; no     *)
(* other step, in particular no PUT, changes the ids of any collection;    *)
(* two POSTs whose responses are both pending have different ids.          *)
(***************************************************************************)
C20_IdsFromStore ==
    [][/\ \A c \in Clients :
            /\ Responde(c, "POST", 201) =>
                  /\ reqs'[c].json["id"].str \notin used
                  /\ reqs'[c].json["id"].str \in used'
                  /\ DOMAIN db'[Coll(c)] = DOMAIN db[Coll(c)] \cup {reqs'[c].json["id"].str}
                  /\ reqs'[c].json["id"].str \notin DOMAIN db[Coll(c)]
                  /\ \A d \in Clients \ {c} :
                        (Terminada(d, "POST") /\ reqs[d].status = 201) =>
                            reqs[d].json["id"] # reqs'[c].json["id"]
            /\ Responde(c, "DELETE", 200) =>
                  DOMAIN db'[Coll(c)] = DOMAIN db[Coll(c)] \ {reqs[c].id}
            /\ Responde(c, "PUT", 200) =>
                  /\ DOMAIN db'[Coll(c)] = DOMAIN db[Coll(c)]
                  /\ reqs[c].id \in DOMAIN db'[Coll(c)]
       /\ \A k \in Collections :
            /\ DOMAIN db'[k] \ DOMAIN db[k] # {} =>
                  \E c \in Clients : Responde(c, "POST", 201) /\ Coll(c) = k
            /\ DOMAIN db[k] \ DOMAIN db'[k] # {} =>
                  \E c \in Clients : Responde(c, "DELETE", 200) /\ Coll(c) = k]_vars

C20_Witness ==
    \E c, d \in Clients :
        /\ c # d
        /\ Terminada(c, "POST") /\ reqs[c].status = 201
        /\ Terminada(d, "POST") /\ reqs[d].status = 201
        /\ reqs[c].json["id"] # reqs[d].json["id"]
        /\ Coll(c) = Coll(d)
        /\ DOMAIN db[Coll(c)] = {reqs[c].json["id"].str, reqs[d].json["id"].str}

(***************************************************************************)
(* C25.  Reviews: a POST whose comment is the empty string, the other      *)
(* fields valid and the store call not failing, is answered 201 and the    *)
(* document inserted has the empty comment; a POST without the comment key *)
(* is answered 400 and inserts nothing.                                    *)
(***************************************************************************)
C25_CommentPresence ==
    \A c \in Clients :
        (Terminada(c, "POST") /\ reqs[c].path = "resenas") =>
            /\ (reqs[c].body["comentario"] = Str("") /\ ~reqs[c].threw
                  /\ \A f \in {"usuarioId", "productoId"} : ~Vacio(reqs[c].body[f])
                  /\ EnRango(reqs[c].body["calificacion"])) =>
                  /\ reqs[c].status = 201
                  /\ db["resenas"][reqs[c].json["id"].str]["comentario"] = Str("")
            /\ reqs[c].body["comentario"] = Undefined =>
                  /\ reqs[c].status = 400
                  /\ db = reqs[c].snap

C25_Witness ==
    \E c \in Clients :
        /\ Terminada(c, "POST")
        /\ reqs[c].path = "resenas"
        /\ reqs[c].body["comentario"] = Str("")
        /\ reqs[c].status = 201
        /\ db["resenas"][reqs[c].json["id"].str]["comentario"] = Str("")

\* the values new Date().toISOString() may give
Sellos == {Str(toISOString(t)) : t \in Instants}

(***************************************************************************)
(* C24.  Users: the document a POST inserts has the fechaRegistro computed *)
(* by the server, which is the one the response returns and not the one    *)
(* the body supplied; no step changes the fechaRegistro of a stored user;  *)
(* and a GET answered 200 returns the stored fechaRegistro.                *)
(***************************************************************************)
C24_FechaRegistro ==
    [][/\ \A c \in Clients :
            /\ (Responde(c, "POST", 201) /\ reqs[c].path = "usuarios") =>
                  LET doc == db'["usuarios"][reqs'[c].json["id"].str]
                  IN  /\ doc["fechaRegistro"] \in Sellos
                      /\ doc["fechaRegistro"] = reqs'[c].json["fechaRegistro"]
                      /\ doc["fechaRegistro"] # reqs[c].body["fechaRegistro"]
            /\ (reqs[c].pc = "get" /\ reqs[c].method = "GET" /\ reqs[c].path = "usuarios"
                  /\ reqs'[c].pc = "done" /\ reqs'[c].status = 200) =>
                  reqs'[c].json["fechaRegistro"] = db["usuarios"][reqs[c].id]["fechaRegistro"]
       /\ \A id \in DOMAIN db["usuarios"] \cap DOMAIN db'["usuarios"] :
            db'["usuarios"][id]["fechaRegistro"] = db["usuarios"][id]["fechaRegistro"]]_vars

\* a PUT whose body supplies a fechaRegistro was answered 200 and read
\* back: the GET returns the one the server assigned
C24_Witness ==
    \E c \in Clients :
        /\ LeidoTrasPut(c)
        /\ reqs[c].path = "usuarios"
        /\ reqs[c].prev.status = 200
        /\ reqs[c].prev.body["fechaRegistro"] \notin Sellos \cup {Undefined}
        /\ reqs[c].status = 200
        /\ reqs[c].json["fechaRegistro"] \in Sellos
        /\ reqs[c].json["fechaRegistro"] = reqs[c].prev.before["fechaRegistro"]

(***************************************************************************)
(* C23.  A GET by id, whatever its status, leaves the store as it was when *)
(* it arrived; a GET of the same id sent on taking the response of a GET,  *)
(* neither failing in the store, is answered with the same status and      *)
(* body; and GET / makes no store call and is answered 200 with the        *)
(* welcome text, also right after a request whose store call failed.       *)
(***************************************************************************)
C23_ReadsPure ==
    \A c \in Clients :
        /\ Terminada(c, "GET") => db = reqs[c].snap
        /\ (Terminada(c, "GET") /\ reqs[c].prev.method = "GET"
              /\ ~reqs[c].prev.threw /\ ~reqs[c].threw) =>
              /\ reqs[c].status = reqs[c].prev.status
              /\ reqs[c].json = reqs[c].prev.json
        /\ reqs[c].path = "/" =>
              /\ reqs[c].pc = "done"
              /\ reqs[c].status = 200
              /\ reqs[c].json = Str(Bienvenido)
              /\ ~reqs[c].threw
              /\ db = reqs[c].snap

C23_Witness ==
    \E c \in Clients :
        /\ reqs[c].path = "/"
        /\ reqs[c].prev.threw
        /\ reqs[c].prev.status = 500
        /\ reqs[c].status = 200

(***************************************************************************)
(* C22.  A collection changes only as a request on its own resource is     *)
(* answered by add, update or delete; the answer to a request is decided   *)
(* by the collection of its resource alone (a GET returns the document of  *)
(* its collection or 404, a PUT or DELETE passes its existence test        *)
(* exactly when its collection holds the id); and a POST with a complete   *)
(* body whose store call does not fail is answered 201 whatever the other  *)
(* collections hold, so that rentals are created, updated and kept without *)
(* regard to the users and machines they name.                             *)
(***************************************************************************)
C22_OwnCollectionOnly ==
    [][/\ \A k \in Collections :
            db'[k] # db[k] =>
                \E c \in Clients :
                    /\ reqs[c].pc \in {"add", "update", "delete"}
                    /\ reqs'[c].pc = "done"
                    /\ Coll(c) = k
       /\ \A c \in Clients :
            LET r == reqs[c]
                n == reqs'[c]
            IN  /\ (r.pc = "get" /\ n.pc # "get" /\ ~n.threw) =>
                      /\ (n.pc = "done" /\ n.status = 404) <=> r.id \notin DOMAIN db[Coll(c)]
                      /\ (r.method = "GET" /\ n.status = 200) =>
                            n.json = WithId(r.id, db[Coll(c)][r.id])
                      /\ (r.method # "GET" /\ r.id \in DOMAIN db[Coll(c)]) =>
                            n.pc = (IF r.method = "PUT" THEN "update" ELSE "delete")
                /\ (r.pc \in {"idle", "add"} /\ n.pc = "done" /\ n.method = "POST"
                      /\ Completo(n.path, n.body) /\ ~n.threw) =>
                      n.status = 201]_vars

\* a DELETE of a user or a machine has been answered 200 and the rental
\* created beside it is still stored
C22_Witness ==
    \E c \in Clients :
        /\ Terminada(c, "DELETE")
        /\ reqs[c].path \in {"usuarios", "maquinas"}
        /\ reqs[c].status = 200
        /\ DOMAIN db[Coll(c)] = {}
        /\ \E id \in DOMAIN db["alquileres"] :
              "usuario" \in DOMAIN db["alquileres"][id] /\ "maquina" \in DOMAIN db["alquileres"][id]

\* the request of client c awaits a store call
EnVuelo(c) == reqs[c].pc \in {"add", "get", "update", "delete"}

(***************************************************************************)
(* C21.  A request that has been answered has been sent exactly one        *)
(* response, on whichever path of its handler, and a request not yet       *)
(* answered none; and, every store call eventually returning or throwing,  *)
(* a request that awaits a store call is eventually answered.              *)
(***************************************************************************)
C21_OneResponse ==
    /\ [](\A c \in Clients :
            /\ reqs[c].pc = "done" => reqs[c].sent = 1
            /\ reqs[c].pc # "done" => reqs[c].sent = 0)
    /\ \A c \in {1} : EnVuelo(c) ~> (reqs[c].pc = "done" /\ reqs[c].sent = 1)

\* a PUT answered 200 after its two store calls, with one response sent
C21_Witness ==
    \E c \in Clients :
        /\ Terminada(c, "PUT")
        /\ reqs[c].status = 200
        /\ reqs[c].sent = 1
====
